---- MODULE Spec2Model ----
(***************************************************************************)
(* Model of trezorencrypt: the interactive device-call engine trezorCall   *)
(* and the two programs that drive it, the command-line client             *)
(* (src/main.go, variant "cli") and the earlier fixed-value program        *)
(* (src/unnamed/part_000, variant "test").                                 *)
(*                                                                         *)
(* The device, the transport (trezorapi / trezorpbcall) and the            *)
(* trezor-askpass collaborator are external: each of their results is a    *)
(* nondeterministic choice.  Bytes are integers 0..255, byte strings are   *)
(* sequences of them.                                                      *)
(***************************************************************************)
EXTENDS Integers, Sequences, FiniteSets, TLC

VARIABLES
    variant,      \* which program runs: "cli" (main.go) or "test" (part_000)
    pc,           \* position of main
    chain,        \* the trezorCall invocation of main in progress or last made
    flags,        \* the parsed command-line flags
    ds,           \* what Enumerate returned: "unset", "empty" or "first..."
    session,      \* "none", "live" or "released"
    req,          \* pbMessage of the innermost trezorCall frame
    res,          \* res of main (the reply trezorCall returned)
    err,          \* err of main (TRUE: non-nil)
    value,        \* the local value / valueByte of main
    stdout,       \* writes to standard output, in order
    stderr,       \* writes to standard error, in order
    exitStatus,   \* process exit status, meaningful when pc = "exited"
    exitCause,    \* which statement ended the process
    sent,         \* kinds of the requests of this call chain, in order
    rcvd,         \* replies received in this call chain, in order
    asked,        \* trezor-askpass invocations of this call chain
    lastOut,      \* standard output of the last trezor-askpass run
    askErr,       \* the last trezor-askpass run ended in an error
    input,        \* what main read from -v and the environment, until sent
    nAcquire,     \* calls of Acquire
    nRelease,     \* calls of Release
    afterRelease, \* external calls made with the session after a Release
    nCipher       \* CipherKeyValue requests sent

vars == <<variant, pc, chain, flags, ds, session, req, res, err, value, stdout,
          stderr, exitStatus, exitCause, sent, rcvd, asked, lastOut, askErr,
          input, nAcquire, nRelease, afterRelease, nCipher>>

-----------------------------------------------------------------------------
(* Bounds of the model *)

\* confirmation requests the device may issue in one call chain
MaxConfirm == 2

\* devices Enumerate may report
MaxDevices == 1

\* length of the short command-line values that are enumerated exhaustively
MaxValueLen == 2

-----------------------------------------------------------------------------
(* Program constants *)

\* block size of the padding, main.go:209
BlockSize == 16

\* exit status of a main that returns, and of os.Exit(0) after usage()
ExitOk == 0

\* os.Exit(255) of checkError, main.go:49
ExitHostError == 255

\* os.Exit(1): no device, no value
ExitNoInput == 1

\* the Failure exit with the status of checkError
ExitFailureAsHostError == ExitHostError

\* the Failure exit with the status of success
ExitFailureAsOk == ExitOk

\* os.Exit(2) after a Failure reply, main.go:238
ExitFailure == 2

\* the unrecognized-reply exit with the status of the Failure exit
ExitUnknownAsFailure == ExitFailure

\* os.Exit(254) after an unrecognized reply, main.go:243
ExitUnknown == 254

\* exit status of a Go process that ends in an unrecovered panic
ExitPanic == 2


-----------------------------------------------------------------------------
(* Values the environment supplies *)

\* characters of the enumerated command-line values: "0", "3" and "z"
Chars == {48, 51, 122}

\* all byte strings over Chars of length at most MaxValueLen
ShortValues == UNION {[1..n -> Chars] : n \in 0..MaxValueLen}

\* longer values: hex whose bytes are hex again, hex followed by junk, and
\* values of one block, one block and a byte, and two blocks of hex
LongValues ==
    { <<51, 48, 51, 48>>,
      <<51, 48, 51, 48, 122, 122>>,
      [i \in 1..BlockSize |-> 51],
      [i \in 1..(BlockSize + 1) |-> 48],
      [i \in 1..(2 * BlockSize) |-> IF i % 2 = 1 THEN 51 ELSE 48] }

\* what -v can carry ("" when the flag is not given)
Values == ShortValues \cup LongValues

\* what TREZOR_CIPHER_VALUE can hold ("" when unset)
EnvValues == {<<>>, <<51, 51>>}

\* what -k can carry; "default key" when the flag is not given (main.go:116)
Keys == {"default key", "other key"}

\* standard output of trezor-askpass
Outs == {<<"1", "2">>, <<"1", "2", "\n">>}

\* Confirmation Requests of the device
ButtonRequest == [kind |-> "ButtonRequest"]
PinMatrixRequest == [kind |-> "PinMatrixRequest"]
PassphraseStateRequest == [kind |-> "PassphraseStateRequest"]
PassphraseRequest(d) == [kind |-> "PassphraseRequest", onDevice |-> d]

\* an optional bool of a protobuf message: nil, or a pointer to false or true
OptBool == {"absent", "false", "true"}

\* Terminal Replies of the device; ident: DeviceId and Label are set
FeaturesReplies ==
    [kind : {"Features"}, bootloader : OptBool, ident : BOOLEAN]

CipheredReplies ==
    [kind : {"CipheredKeyValue"}, value : {<<>>, <<171, 48>>}]

FailureReplies ==
    {[kind |-> "Failure", hasMessage |-> TRUE, message |-> "PIN invalid"],
     [kind |-> "Failure", hasMessage |-> FALSE, message |-> ""]}

\* a message type neither switch names
OtherReplies == {[kind |-> "Success"]}

TerminalReplies ==
    FeaturesReplies \cup CipheredReplies \cup FailureReplies \cup OtherReplies

\* the nil proto.Message
NoMessage == [kind |-> "nil"]

-----------------------------------------------------------------------------
(* encoding/hex, as main.go uses it *)

\* hex.fromHexChar: the digit's value, or 255 for a byte that is no digit
FromHexChar(c) ==
    IF c \in 48..57 THEN c - 48
    ELSE IF c \in 97..102 THEN c - 87
    ELSE IF c \in 65..70 THEN c - 55
    ELSE 255

\* the loop of hex.Decode: the bytes of the leading well-formed pairs
RECURSIVE DecodeFrom(_, _)
DecodeFrom(src, k) ==
    IF 2 * k > Len(src) THEN <<>>
    ELSE IF FromHexChar(src[2 * k - 1]) > 15 \/ FromHexChar(src[2 * k]) > 15
         THEN <<>>
         ELSE <<FromHexChar(src[2 * k - 1]) * 16 + FromHexChar(src[2 * k])>>
              \o DecodeFrom(src, k + 1)

\* hex.Decode reports an error: a bad digit, or an odd length
DecodeFails(src) ==
    \/ Len(DecodeFrom(src, 1)) < Len(src) \div 2
    \/ Len(src) % 2 = 1

\* hex.DecodeString: the bytes decoded before the error, and the error
DecodeString(s) ==
    [bytes |-> DecodeFrom(s, 1), err |-> DecodeFails(s)]

\* hex.Decode(buf, buf): the decoded bytes overwrite the front of buf, whose
\* length stays what it was
DecodeInPlace(buf) ==
    DecodeFrom(buf, 1) \o SubSeq(buf, Len(DecodeFrom(buf, 1)) + 1, Len(buf))

\* one digit of "0123456789abcdef"
HexDigit(n) == IF n < 10 THEN 48 + n ELSE 87 + n

\* hex.EncodeToString
RECURSIVE EncodeToString(_)
EncodeToString(b) ==
    IF Len(b) = 0 THEN <<>>
    ELSE <<HexDigit(Head(b) \div 16), HexDigit(Head(b) % 16)>>
         \o EncodeToString(Tail(b))

-----------------------------------------------------------------------------
(* Padding, main.go:209-210 *)

\* 16 * int(math.Ceil(float64(n) / 16)), exact for the lengths of the model
\* a block is added even when the length is already block-aligned
PaddedLenAddsBlock(n) == BlockSize * ((n \div BlockSize) + 1)

PaddedLen(n) == BlockSize * ((n + BlockSize - 1) \div BlockSize)

\* make([]byte, PaddedLen) is all zero; copy writes v over its front
PadValue(v) == v \o [i \in 1..(PaddedLen(Len(v)) - Len(v)) |-> 0]

-----------------------------------------------------------------------------
(* Requests *)

Initialize == [kind |-> "Initialize"]
ButtonAck == [kind |-> "ButtonAck"]
PinMatrixAck(pin) == [kind |-> "PinMatrixAck", pin |-> pin]
PassphraseAck(has, pass) ==
    [kind |-> "PassphraseAck", hasPassphrase |-> has, passphrase |-> pass]
PassphraseStateAck == [kind |-> "PassphraseStateAck"]
CipherKeyValue(key, v, encrypt) ==
    [kind |-> "CipherKeyValue", key |-> key, value |-> v, encrypt |-> encrypt,
     askOnDecrypt |-> TRUE, askOnEncrypt |-> TRUE]

\* the value sent for the test program, part_000:164
TestValue == <<84, 69, 83, 84, 32, 86, 65, 76, 85, 69>>

-----------------------------------------------------------------------------
(* Diagnostics and output *)

GotError == "Got error\n"
PanicTrace == "panic\n"
UsageText == "usage\n"
NoDeviceText == "No TREZOR device(s) found\n"
BootloaderText == "Device is in bootloader mode\n"
DeviceIdText == "Device ID\n"
OnDeviceText == "Passphrase requested on device\n"
NoValueText ==
    "No value specified! Use eighter environment TREZOR_CIPHER_VALUE or -v param\n"
FailureText(m) == "Failure: " \o m \o "\n"

\* -v and TREZOR_CIPHER_VALUE before main reads them, main.go:175-179
NoInput == [read |-> FALSE, param |-> <<>>, env |-> <<>>]

\* one write to standard output: a text followed by raw bytes
Write(text, bytes) == [text |-> text, bytes |-> bytes]

Init ==
    /\ variant \in {"cli", "test"}
    /\ pc = "parse"
    /\ chain = "none"
    /\ flags = [help |-> FALSE, hexIn |-> FALSE, hexOut |-> FALSE,
                encrypt |-> FALSE]
    /\ ds = "unset"
    /\ session = "none"
    /\ req = NoMessage
    /\ res = NoMessage
    /\ err = FALSE
    /\ value = <<>>
    /\ stdout = <<>>
    /\ stderr = <<>>
    /\ exitStatus = ExitOk
    /\ exitCause = "running"
    /\ sent = <<>>
    /\ rcvd = <<>>
    /\ asked = <<>>
    /\ lastOut = <<>>
    /\ askErr = FALSE
    /\ input = NoInput
    /\ nAcquire = 0
    /\ nRelease = 0
    /\ afterRelease = 0
    /\ nCipher = 0

ghost == <<sent, rcvd, asked, lastOut, askErr>>
counters == <<nAcquire, nRelease, afterRelease, nCipher>>
locals == <<req, res, err, value>>

-----------------------------------------------------------------------------
(* Ways the process ends or goes on *)

Goto(p) == pc' = p /\ UNCHANGED <<exitStatus, exitCause>>

Exit(status, cause) ==
    pc' = "exited" /\ exitStatus' = status /\ exitCause' = cause

\* an error of trezorCall that main does not look at
FailedNever == FALSE

\* err != nil, as main tests it after each call of trezorCall
Failed == err

\* checkError with a non-nil error, after the diagnostics pre
Fatal(pre) ==
    /\ stderr' = stderr \o pre \o <<GotError>>
    /\ Exit(ExitHostError, "checkError")

\* panic(err): the runtime prints the panic and ends the process
Panic(pre) ==
    /\ stderr' = stderr \o pre \o <<PanicTrace>>
    /\ Exit(ExitPanic, "panic")

\* how main treats an error of the API: checkError in main.go, panic in part_000
HostError(pre) == IF variant = "cli" THEN Fatal(pre) ELSE Panic(pre)

\* err = trezorAPI.Release(session, debugLink)
ReleaseCall(ok) ==
    /\ nRelease' = nRelease + 1
    /\ afterRelease' = afterRelease + (IF nRelease > 0 THEN 1 ELSE 0)
    /\ session' = IF ok THEN "released" ELSE session
    /\ err' = ~ok
    /\ UNCHANGED <<nAcquire, nCipher>>

-----------------------------------------------------------------------------
(* main, up to the first call *)

\* flag.Parse and the help exit
ParseFlags ==
    /\ pc = "parse"
    /\ \E h, hi, ho, e \in BOOLEAN :
         /\ variant = "test" => (~hi /\ ~ho /\ ~e)
         /\ flags' = [help |-> h, hexIn |-> hi, hexOut |-> ho, encrypt |-> e]
         /\ IF h
            THEN stderr' = Append(stderr, UsageText) /\ Exit(ExitOk, "help")
            ELSE Goto("new") /\ UNCHANGED stderr
    /\ UNCHANGED <<variant, ds, input, chain, session, locals, stdout, ghost, counters>>

\* trezorapi.New
NewAPI ==
    /\ pc = "new"
    /\ \E ok \in BOOLEAN :
         IF ok THEN Goto("enumerate") /\ UNCHANGED stderr
               ELSE HostError(<<>>)
    /\ UNCHANGED <<variant, ds, input, chain, flags, session, locals, stdout, ghost,
                   counters>>

\* the device count check with the wrong bound
NoDeviceBelowZero(n) == n < 0

\* len(ds) < 1
NoDevice(n) == n < 1

\* main reads ds[0] only: the model keeps whether the list of n devices is empty
Enumerated(n) == IF n = 0 THEN "empty" ELSE "first..."

\* trezorAPI.Enumerate and the device count check
Enumerate ==
    /\ pc = "enumerate"
    /\ \E ok \in BOOLEAN, n \in 0..MaxDevices :
         IF ~ok THEN HostError(<<>>) /\ UNCHANGED ds
         ELSE /\ ds' = Enumerated(n)
              /\ IF NoDevice(n)
                 THEN /\ stderr' = Append(stderr, NoDeviceText)
                      /\ Exit(ExitNoInput, "noDevice")
                 ELSE Goto("acquire") /\ UNCHANGED stderr
    /\ UNCHANGED <<variant, input, chain, flags, session, locals, stdout,
                   ghost, counters>>

\* trezorAPI.Acquire, then main calls trezorCall with Initialize
Acquire ==
    /\ pc = "acquire"
    /\ nAcquire' = nAcquire + 1
    /\ \E ok \in BOOLEAN :
         IF ok
         THEN /\ session' = "live"
              /\ req' = Initialize
              /\ chain' = "init"
              /\ Goto("call")
              /\ UNCHANGED stderr
         ELSE /\ HostError(<<>>)
              /\ UNCHANGED <<session, req, chain>>
    /\ UNCHANGED <<variant, ds, input, flags, res, err, value, stdout, ghost,
                   nRelease, afterRelease, nCipher>>

-----------------------------------------------------------------------------
(* trezorCall: one action is one frame of the recursion, from its            *)
(* trezorpbcall.Call to the recursive call or the return.  A frame that      *)
(* recurses returns what the inner frame returns, so the return of the       *)
(* innermost frame is the return of the whole chain to main.                 *)

\* trezorpbcall.Call sends pbMessage with the session
Transmit ==
    /\ sent' = Append(sent, req.kind)
    /\ afterRelease' = afterRelease + (IF nRelease > 0 THEN 1 ELSE 0)
    /\ nCipher' = nCipher + (IF req.kind = "CipherKeyValue" THEN 1 ELSE 0)
    /\ input' = NoInput
    /\ UNCHANGED <<nAcquire, nRelease>>

\* the type switch without its PassphraseStateRequest case
RecursesWithoutState(reply) ==
    \/ reply.kind = "ButtonRequest"
    \/ reply.kind = "PinMatrixRequest"
    \/ reply.kind = "PassphraseRequest"

\* the type switch with a cap of one acknowledgment for each call chain
RecursesOnce(reply) ==
    /\ Len(rcvd) < 1
    /\ reply.kind \in {"ButtonRequest", "PinMatrixRequest",
                       "PassphraseRequest", "PassphraseStateRequest"}

\* the reply has a case in the type switch of trezorCall
Recurses(reply) ==
    \/ reply.kind = "ButtonRequest"
    \/ reply.kind = "PinMatrixRequest"
    \/ reply.kind = "PassphraseRequest"
    \/ reply.kind = "PassphraseStateRequest"

\* the on-device test that looks only at the presence of the field
OnDeviceIfSet(reply) ==
    reply.kind = "PassphraseRequest" /\ reply.onDevice # "absent"

\* data.OnDevice != nil && *data.OnDevice
OnDevice(reply) == reply.kind = "PassphraseRequest" /\ reply.onDevice = "true"

\* the case runs trezor-askpass
NeedsInput(reply) ==
    \/ reply.kind = "PinMatrixRequest"
    \/ reply.kind = "PassphraseRequest" /\ ~OnDevice(reply)

\* the argument trezor-askpass is run with
Prompt(reply) ==
    IF reply.kind = "PinMatrixRequest"
    THEN (IF variant = "cli" THEN "PIN:" ELSE "PIN")
    ELSE (IF variant = "cli" THEN "Passphrase:" ELSE "Passphrase")

\* the error of cmd.Output is dropped for the PIN as it is for the passphrase
InputErrorIsFatalInCli(reply) == variant = "cli"

\* an error of cmd.Output ends the process: always for the PIN, and for the
\* passphrase in main.go (part_000 drops the error)
InputErrorIsFatal(reply) ==
    reply.kind = "PinMatrixRequest" \/ variant = "cli"

\* the cases with the acknowledgment of PassphraseStateRequest mistaken
AckForStateAsButton(reply, out) ==
    CASE reply.kind = "ButtonRequest" -> ButtonAck
      [] reply.kind = "PinMatrixRequest" -> PinMatrixAck(out)
      [] reply.kind = "PassphraseRequest" ->
           IF OnDevice(reply) THEN PassphraseAck(FALSE, <<>>)
                              ELSE PassphraseAck(TRUE, out)
      [] reply.kind = "PassphraseStateRequest" -> ButtonAck

\* the request the case recurses with; out is the output of trezor-askpass
AckFor(reply, out) ==
    CASE reply.kind = "ButtonRequest" -> ButtonAck
      [] reply.kind = "PinMatrixRequest" -> PinMatrixAck(out)
      [] reply.kind = "PassphraseRequest" ->
           IF OnDevice(reply) THEN PassphraseAck(FALSE, <<>>)
                              ELSE PassphraseAck(TRUE, out)
      [] reply.kind = "PassphraseStateRequest" -> PassphraseStateAck

\* what the case writes before it recurses
NoticeOut(reply) ==
    IF variant = "test" /\ reply.kind = "PinMatrixRequest"
    THEN <<Write("PIN Request\n", <<>>)>> ELSE <<>>

NoticeErr(reply) == IF OnDevice(reply) THEN <<OnDeviceText>> ELSE <<>>

\* return res, err: the frames and their pbMessage are gone
Return(reply, failed) ==
    /\ res' = reply
    /\ err' = failed
    /\ req' = NoMessage
    /\ Goto("returned")
    /\ UNCHANGED <<stdout, stderr, asked, lastOut, askErr>>

\* a case that recurses without input
Recurse(reply) ==
    /\ req' = AckFor(reply, <<>>)
    /\ stderr' = stderr \o NoticeErr(reply)
    /\ Goto("call")
    /\ UNCHANGED <<res, err, stdout, asked, lastOut, askErr>>

\* a case that runs trezor-askpass, then recurses or ends the process
RecurseWithInput(reply) ==
    /\ asked' = Append(asked, Prompt(reply))
    /\ stdout' = stdout \o NoticeOut(reply)
    /\ \E ok \in BOOLEAN, out \in Outs \cup {<<>>} :
         /\ ok => out \in Outs
         /\ lastOut' = out
         /\ askErr' = ~ok
         /\ IF ~ok /\ InputErrorIsFatal(reply)
            THEN /\ (IF variant = "cli" THEN Fatal(<<>>) ELSE Panic(<<>>))
                 /\ UNCHANGED req
            ELSE /\ req' = AckFor(reply, out)
                 /\ Goto("call")
                 /\ UNCHANGED stderr
    /\ UNCHANGED <<res, err>>

\* one frame whose call is answered with reply
Frame(reply) ==
    /\ pc = "call"
    /\ Transmit
    /\ rcvd' = Append(rcvd, reply)
    /\ IF ~Recurses(reply) THEN Return(reply, FALSE)
       ELSE IF NeedsInput(reply) THEN RecurseWithInput(reply)
       ELSE Recurse(reply)
    /\ UNCHANGED <<variant, ds, chain, flags, session, value>>

MayConfirm == Len(rcvd) < MaxConfirm

CallButton == MayConfirm /\ Frame(ButtonRequest)

CallPinMatrix == MayConfirm /\ Frame(PinMatrixRequest)

CallPassphrase == MayConfirm /\ \E d \in OptBool : Frame(PassphraseRequest(d))

CallPassphraseState == MayConfirm /\ Frame(PassphraseStateRequest)

CallTerminal == pc = "call" /\ \E reply \in TerminalReplies : Frame(reply)

\* the transport call fails: res is nil, no case matches
CallError ==
    /\ pc = "call"
    /\ Transmit
    /\ Return(NoMessage, TRUE)
    /\ UNCHANGED <<variant, ds, chain, flags, session, value, rcvd>>

-----------------------------------------------------------------------------
(* main, after the Initialize call *)

\* typed.BootloaderMode != nil && *typed.BootloaderMode
InBootloader(reply) == reply.kind = "Features" /\ reply.bootloader = "true"

\* main.go:167 and part_000:159 dereference the identity fields
IdentityMissing(reply) == reply.kind = "Features" /\ ~reply.ident

\* where main goes after the first switch
AfterInit == IF variant = "cli" THEN "resolve" ELSE "build"

\* a reply that is no Features ends the run at the last Release
AfterSwitchUnknownEnds(reply) ==
    IF reply.kind = "Features" THEN AfterInit ELSE "release"

\* where main goes after the case of the switch taken for reply: no case of
\* it leaves main
AfterSwitch(reply) == AfterInit

\* checkError(err) and the switch on the reply to Initialize, main.go:155-170
InitSwitchCli ==
    /\ variant = "cli" /\ pc = "returned" /\ chain = "init"
    /\ IF Failed
       THEN Fatal(<<>>) /\ UNCHANGED <<session, err, counters, ghost>>
       ELSE IF InBootloader(res)
       THEN \E ok \in BOOLEAN :
              /\ ReleaseCall(ok)
              /\ IF ~ok
                 THEN Fatal(<<BootloaderText>>) /\ UNCHANGED ghost
                 ELSE IF IdentityMissing(res)
                 THEN Panic(<<BootloaderText>>) /\ UNCHANGED ghost
                 ELSE /\ stderr' = stderr \o <<BootloaderText, DeviceIdText>>
                      /\ Goto(AfterInit)
                      /\ sent' = <<>> /\ rcvd' = <<>> /\ asked' = <<>>
                      /\ lastOut' = <<>> /\ askErr' = FALSE
       ELSE IF IdentityMissing(res)
       THEN Panic(<<>>) /\ UNCHANGED <<session, err, counters, ghost>>
       ELSE /\ stderr' = Append(stderr, IF res.kind = "Features"
                                        THEN DeviceIdText
                                        ELSE "Unknown type.\n")
            /\ Goto(AfterSwitch(res))
            /\ sent' = <<>> /\ rcvd' = <<>> /\ asked' = <<>> /\ lastOut' = <<>>
            /\ askErr' = FALSE
            /\ UNCHANGED <<session, err, counters>>
    /\ UNCHANGED <<variant, ds, input, chain, flags, req, res, value, stdout>>

\* the same place of part_000:153-162, which writes to standard output
InitSwitchTest ==
    /\ variant = "test" /\ pc = "returned" /\ chain = "init"
    /\ IF Failed \/ IdentityMissing(res)
       THEN Panic(<<>>) /\ UNCHANGED <<stdout, ghost>>
       ELSE /\ stdout' = Append(stdout, Write(IF res.kind = "Features"
                                              THEN DeviceIdText
                                              ELSE "Unknown type.\n", <<>>))
            /\ Goto(AfterInit)
            /\ sent' = <<>> /\ rcvd' = <<>> /\ asked' = <<>> /\ lastOut' = <<>>
            /\ askErr' = FALSE
            /\ UNCHANGED stderr
    /\ UNCHANGED <<variant, ds, input, chain, flags, session, locals, counters>>

\* the value to cipher: -v, or the environment when -v is empty
ResolveValue(param, env) == IF Len(param) = 0 THEN env ELSE param

\* the test without a true case
NoValueNever(v) == Len(v) < 0

\* len(value) == 0
NoValue(v) == Len(v) = 0

\* os.Getenv is called only when -v is empty
ReadInput(param, env) ==
    [read |-> TRUE, param |-> param,
     env |-> IF Len(param) = 0 THEN env ELSE <<>>]

\* main.go:172-191; -v and TREZOR_CIPHER_VALUE are read here
Resolve ==
    /\ pc = "resolve"
    /\ \E param \in Values, env \in EnvValues :
         /\ input' = ReadInput(param, env)
         /\ IF NoValue(ResolveValue(param, env))
            THEN \E ok \in BOOLEAN :
                   /\ ReleaseCall(ok)
                   /\ IF ok
                      THEN /\ stderr' = Append(stderr, NoValueText)
                           /\ Exit(ExitNoInput, "noValue")
                      ELSE Panic(<<NoValueText>>)
                   /\ UNCHANGED value
            ELSE /\ value' = ResolveValue(param, env)
                 /\ Goto("decode")
                 /\ UNCHANGED <<stderr, session, err, counters>>
    /\ UNCHANGED <<variant, ds, chain, flags, req, res, stdout, ghost>>

\* value after main.go:193-195
FirstDecode(v) == IF flags.hexIn THEN DecodeString(v).bytes ELSE v

\* main.go:197-198: the second decoding is done
DecodesAgain == ~flags.encrypt /\ flags.hexIn

\* main.go:199: the parity check panics
BadParity(v) == Len(v) % 2 # 0

\* main.go:193-205
Decode ==
    /\ pc = "decode"
    /\ IF DecodesAgain
       THEN IF BadParity(FirstDecode(value))
            THEN Panic(<<>>) /\ UNCHANGED value
            ELSE /\ value' = DecodeInPlace(FirstDecode(value))
                 /\ Goto("build")
                 /\ UNCHANGED stderr
       ELSE /\ value' = FirstDecode(value)
            /\ Goto("build")
            /\ UNCHANGED stderr
    /\ UNCHANGED <<variant, ds, input, chain, flags, session, req, res, err, stdout,
                   ghost, counters>>

\* main.go:207-224: pad, build the request and call trezorCall with it; -k is
\* read here.  valueByte and paddedValue are not read again
BuildCli ==
    /\ variant = "cli" /\ pc = "build"
    /\ \E key \in Keys :
         req' = CipherKeyValue(key, PadValue(value), flags.encrypt)
    /\ value' = <<>>
    /\ chain' = "cipher"
    /\ Goto("call")
    /\ UNCHANGED <<variant, ds, input, flags, session, res, err, stdout, stderr, ghost,
                   counters>>

\* part_000:164-180
BuildTest ==
    /\ variant = "test" /\ pc = "build"
    /\ req' = CipherKeyValue("TEST KEY", PadValue(TestValue), TRUE)
    /\ chain' = "cipher"
    /\ Goto("call")
    /\ UNCHANGED <<variant, ds, input, flags, session, res, err, value, stdout, stderr,
                   ghost, counters>>

\* what main.go:229-233 prints
\* the value is printed raw whatever -Ho says
PrintedRaw(v) == v

Printed(v) == IF flags.hexOut THEN EncodeToString(v) ELSE v

\* checkError(err) and the switch on the reply to CipherKeyValue,
\* main.go:225-244
CipherSwitchCli ==
    /\ variant = "cli" /\ pc = "returned" /\ chain = "cipher"
    /\ IF Failed
       THEN Fatal(<<>>) /\ UNCHANGED <<res, err, stdout, session, counters>>
       ELSE IF res.kind = "CipheredKeyValue"
       THEN /\ res' = [res EXCEPT !.value = Printed(res.value)]
            /\ stdout' = Append(stdout, Write("", Printed(res.value)))
            /\ Goto("release")
            /\ UNCHANGED <<stderr, err, session, counters>>
       ELSE IF res.kind = "Failure" /\ ~res.hasMessage
       THEN Panic(<<>>) /\ UNCHANGED <<res, err, stdout, session, counters>>
       ELSE \E ok \in BOOLEAN :
              /\ ReleaseCall(ok)
              /\ IF ~ok
                 THEN Fatal(<<IF res.kind = "Failure"
                              THEN FailureText(res.message)
                              ELSE "Unknown type.">>)
                 ELSE IF res.kind = "Failure"
                 THEN /\ stderr' = Append(stderr, FailureText(res.message))
                      /\ Exit(ExitFailure, "failure")
                 ELSE /\ stderr' = Append(stderr, "Unknown type.")
                      /\ Exit(ExitUnknown, "unknown")
              /\ UNCHANGED <<res, stdout>>
    /\ UNCHANGED <<variant, ds, input, chain, flags, req, value, ghost>>

\* part_000:182-193: every case prints to standard output and goes on
CipherSwitchTest ==
    /\ variant = "test" /\ pc = "returned" /\ chain = "cipher"
    /\ IF Failed \/ (res.kind = "Failure" /\ ~res.hasMessage)
       THEN Panic(<<>>) /\ UNCHANGED stdout
       ELSE /\ stdout' = Append(stdout,
                IF res.kind = "CipheredKeyValue" THEN Write("Data: ", res.value)
                ELSE IF res.kind = "Failure"
                     THEN Write(FailureText(res.message), <<>>)
                     ELSE Write("Unknown type.\n", <<>>))
            /\ Goto("release")
            /\ UNCHANGED stderr
    /\ UNCHANGED <<variant, ds, input, chain, flags, session, locals, ghost, counters>>

\* the last Release and the return of main, main.go:246-249, part_000:195-199
FinalRelease ==
    /\ pc = "release"
    /\ \E ok \in BOOLEAN :
         /\ ReleaseCall(ok)
         /\ IF ok THEN Exit(ExitOk, "returned") /\ UNCHANGED stderr
                  ELSE HostError(<<>>)
    /\ UNCHANGED <<variant, ds, input, chain, flags, req, res, value, stdout, ghost>>

-----------------------------------------------------------------------------

Next ==
    \/ ParseFlags
    \/ NewAPI
    \/ Enumerate
    \/ Acquire
    \/ CallButton
    \/ CallPinMatrix
    \/ CallPassphrase
    \/ CallPassphraseState
    \/ CallTerminal
    \/ CallError
    \/ InitSwitchCli
    \/ InitSwitchTest
    \/ Resolve
    \/ Decode
    \/ BuildCli
    \/ BuildTest
    \/ CipherSwitchCli
    \/ CipherSwitchTest
    \/ FinalRelease

Spec == Init /\ [][Next]_vars

\* the process keeps running: every transport call and every run of
\* trezor-askpass returns, and the statement after it is executed
FairSpec == Spec /\ WF_vars(Next)

-----------------------------------------------------------------------------
(* Vocabulary of the claims *)

Last(q) == q[Len(q)]

\* the four kinds of Confirmation Request
ConfirmationKinds ==
    {"ButtonRequest", "PinMatrixRequest", "PassphraseRequest",
     "PassphraseStateRequest"}

\* the diagnostic was written to standard error
Reported(text) == \E i \in DOMAIN stderr : stderr[i] = text

\* a confirmation that needs no input from the host
SilentConfirmation(r) ==
    \/ r.kind \in {"ButtonRequest", "PassphraseStateRequest"}
    \/ r.kind = "PassphraseRequest" /\ r.onDevice = "true"

\* the kind of acknowledgment that answers a confirmation
MatchingAck(r) ==
    CASE r.kind = "ButtonRequest" -> "ButtonAck"
      [] r.kind = "PinMatrixRequest" -> "PinMatrixAck"
      [] r.kind = "PassphraseRequest" -> "PassphraseAck"
      [] r.kind = "PassphraseStateRequest" -> "PassphraseStateAck"

\* a call chain has returned a reply to main
ChainReturned == pc = "returned" /\ ~err

\* the last reply of the call chain was a confirmation
EndedOnConfirmation ==
    Len(rcvd) > 0 /\ Last(rcvd).kind \in ConfirmationKinds

\* C1: when the device answers a call chain with N confirmations that need
\* no host input (ButtonRequest, on-device PassphraseRequest,
\* PassphraseStateRequest) and then a terminal reply, trezorCall has sent
\* the first request and exactly N acknowledgments, the i-th of the kind
\* that matches the i-th confirmation (an on-device PassphraseRequest is
\* answered by a PassphraseAck without passphrase), it returns the terminal
\* reply unchanged, and no request was sent after the terminal reply
C1_AcksMatchConfirmations ==
    /\ (ChainReturned
        /\ \A i \in 1..(Len(rcvd) - 1) : SilentConfirmation(rcvd[i]))
       => /\ Len(rcvd) >= 1
          /\ Len(sent) = Len(rcvd)
          /\ \A i \in 1..(Len(rcvd) - 1) : sent[i + 1] = MatchingAck(rcvd[i])
          /\ res = Last(rcvd)
          /\ res.kind \notin ConfirmationKinds
    /\ (pc = "call" /\ Len(rcvd) > 0 /\ SilentConfirmation(Last(rcvd)))
       => /\ req.kind = MatchingAck(Last(rcvd))
          /\ Len(sent) = Len(rcvd)
          /\ req.kind = "PassphraseAck" => ~req.hasPassphrase

\* C1 witness: a chain of two silent confirmations and a terminal reply
C1_Witness ==
    /\ ChainReturned
    /\ Len(rcvd) = 3
    /\ rcvd[1].kind = "PassphraseRequest" /\ rcvd[1].onDevice = "true"
    /\ rcvd[2].kind = "PassphraseStateRequest"
    /\ sent = <<"CipherKeyValue", "PassphraseAck", "PassphraseStateAck">>
    /\ res.kind = "CipheredKeyValue"

\* C2: in every run of main.go in which Acquire succeeded, Release has been
\* called exactly once when the process ends
C2_ReleasedExactlyOnce ==
    (variant = "cli" /\ pc = "exited" /\ session # "none") => nRelease = 1

\* C3: once main.go has seen bootloader mode in the reply to Initialize and
\* released the session, no CipherKeyValue request is ever sent
C3_BootloaderEndsRun ==
    (variant = "cli" /\ Reported(BootloaderText)) => nCipher = 0

\* C4: main.go makes no transport call and no second Release once Release
\* has been called
C4_NoUseAfterRelease == variant = "cli" => afterRelease = 0

\* C5 as stated: whenever a call chain has ended, by returning or by the
\* end of the process, the last reply received was no confirmation, and
\* trezorCall never returns a confirmation
C5_EndsOnTerminalReply ==
    /\ (pc \in {"returned", "exited"}) => ~EndedOnConfirmation
    /\ pc = "returned" => res.kind \notin ConfirmationKinds

\* C5 amended: trezorCall never returns a confirmation; when it returns
\* without error, what it returns is the last reply received; a chain ends
\* on a confirmation only by a failed transport call (trezorCall returns
\* nil and the error) or by the process ending on a failed trezor-askpass
C5_ReturnsOnlyTerminal ==
    /\ pc = "returned" => res.kind \notin ConfirmationKinds
    /\ ChainReturned => (Len(rcvd) > 0 /\ res = Last(rcvd))
    /\ (pc = "returned" /\ EndedOnConfirmation) => (err /\ res = NoMessage)
    /\ (pc = "exited" /\ EndedOnConfirmation /\ ~err)
       => /\ Last(rcvd).kind \in {"PinMatrixRequest", "PassphraseRequest"}
          /\ Len(asked) > 0
          /\ exitCause \in {"checkError", "panic"}

\* C5 witness: a chain with a PIN and a passphrase entry has returned
C5_Witness ==
    /\ ChainReturned
    /\ Len(rcvd) = 3
    /\ rcvd[1].kind = "PinMatrixRequest"
    /\ rcvd[2].kind = "PassphraseRequest"
    /\ res.kind = "Features"

\* the cipher call of main.go was answered by a Failure with a message, and
\* the process has ended
CipherFailed ==
    /\ variant = "cli" /\ chain = "cipher" /\ pc = "exited"
    /\ Len(rcvd) > 0
    /\ Last(rcvd).kind = "Failure" /\ Last(rcvd).hasMessage

\* the number of writes of text to standard error
Times(text) == Cardinality({i \in DOMAIN stderr : stderr[i] = text})

\* C6 as stated: after a Failure reply with message m to the cipher call,
\* "Failure: m\n" is the one write of it and the last write to standard
\* error, nothing is on standard output, the session is released and the
\* exit status is 2
C6_FailureExitsWithTwo ==
    CipherFailed
    => /\ Times("Failure: " \o Last(rcvd).message \o "\n") = 1
       /\ Last(stderr) = "Failure: " \o Last(rcvd).message \o "\n"
       /\ stdout = <<>>
       /\ nRelease >= 1 /\ session = "released"
       /\ exitStatus = 2

\* C6 amended: after a Failure reply with message m to the cipher call,
\* "Failure: m\n" is written once to standard error, nothing is written to
\* standard output and Release is called; when Release returns no error
\* that write is the last one and the exit status is 2; when Release
\* returns an error, checkError reports it and the exit status is 255
C6_FailureReleasesThenExits ==
    CipherFailed
    => /\ Times("Failure: " \o Last(rcvd).message \o "\n") = 1
       /\ stdout = <<>>
       /\ nRelease >= 1
       /\ ~err => /\ Last(stderr) = "Failure: " \o Last(rcvd).message \o "\n"
                  /\ session = "released"
                  /\ exitStatus = 2
       /\ err => /\ Len(stderr) >= 2
                 /\ stderr[Len(stderr) - 1]
                      = "Failure: " \o Last(rcvd).message \o "\n"
                 /\ Last(stderr) = GotError
                 /\ exitStatus = 255

\* C6 witness: the Failure exit after a release that succeeded
C6_Witness ==
    CipherFailed /\ ~err /\ exitStatus = 2 /\ Last(rcvd).message = "PIN invalid"

\* the cipher call of main.go was answered by a terminal reply that is
\* neither CipheredKeyValue nor Failure, and the process has ended
CipherUnrecognized ==
    /\ variant = "cli" /\ chain = "cipher" /\ pc = "exited"
    /\ Len(rcvd) > 0
    /\ Last(rcvd).kind \notin
         ({"CipheredKeyValue", "Failure"} \cup ConfirmationKinds)

\* C7 as stated: after an unrecognized terminal reply to the cipher call,
\* "Unknown type." is the last write to standard error, the session is
\* released and the exit status is 254, which is none of 0, 1 and 2
C7_UnknownExitsWith254 ==
    CipherUnrecognized
    => /\ Last(stderr) = "Unknown type."
       /\ nRelease >= 1 /\ session = "released"
       /\ exitStatus = 254
       /\ exitStatus \notin {0, 1, 2}

\* C7 amended: after an unrecognized terminal reply to the cipher call,
\* "Unknown type." is written to standard error and Release is called; when
\* Release returns no error the exit status is 254, which is none of 0, 1
\* and 2; when Release returns an error the exit status is 255
C7_UnknownReleasesThenExits ==
    CipherUnrecognized
    => /\ Reported("Unknown type.")
       /\ stdout = <<>>
       /\ nRelease >= 1
       /\ ~err => /\ Last(stderr) = "Unknown type."
                  /\ session = "released"
                  /\ exitStatus = 254
                  /\ exitStatus \notin {0, 1, 2}
       /\ err => /\ Last(stderr) = GotError
                 /\ exitStatus = 255

\* C7 witness: a Features reply to the cipher call, then the exit with 254
C7_Witness ==
    /\ CipherUnrecognized /\ ~err /\ exitStatus = 254
    /\ Last(rcvd).kind = "Features"

\* C8: when Enumerate returns no device, the process has ended with status
\* 1 and an error on standard error, and Acquire, Release and the transport
\* were never called
C8_NoDeviceNoSession ==
    ds = "empty"
    => /\ pc = "exited" /\ exitStatus = 1
       /\ Len(stderr) > 0 /\ Last(stderr) = NoDeviceText
       /\ stdout = <<>>
       /\ nAcquire = 0 /\ nRelease = 0 /\ session = "none"
       /\ chain = "none" /\ sent = <<>> /\ nCipher = 0

\* C8 witness: the exit after an empty enumeration
C8_Witness == ds = "empty" /\ pc = "exited" /\ exitStatus = 1

\* the replies of the chain that make the host ask for input
InputRequests ==
    {i \in DOMAIN rcvd :
        \/ rcvd[i].kind = "PinMatrixRequest"
        \/ rcvd[i].kind = "PassphraseRequest" /\ rcvd[i].onDevice # "true"}

Whitespace == {" ", "\n", "\t", "\r"}

\* a text without its trailing whitespace
RECURSIVE TrimRight(_)
TrimRight(t) ==
    IF Len(t) > 0 /\ t[Len(t)] \in Whitespace
    THEN TrimRight(SubSeq(t, 1, Len(t) - 1))
    ELSE t

\* C9: after a PinMatrixRequest, main.go has run trezor-askpass once for
\* it, with the argument "PIN:", and the request it sends next is a
\* PinMatrixAck whose pin is the output of that run without its trailing
\* whitespace
C9_PinAckCarriesTrimmedPin ==
    /\ variant = "cli" => Len(asked) = Cardinality(InputRequests)
    /\ (variant = "cli" /\ pc = "call" /\ Len(rcvd) > 0
        /\ Last(rcvd).kind = "PinMatrixRequest")
       => /\ Last(asked) = "PIN:"
          /\ req = [kind |-> "PinMatrixAck", pin |-> TrimRight(lastOut)]

CipherRequestReady ==
    pc = "call" /\ chain = "cipher" /\ sent = <<>>

\* v is p followed by zero bytes up to the next multiple of 16
IsZeroPadded(v, p) ==
    /\ Len(v) % 16 = 0
    /\ Len(v) >= Len(p)
    /\ Len(v) < Len(p) + 16
    /\ \A i \in 1..Len(v) : v[i] = IF i <= Len(p) THEN p[i] ELSE 0

\* C11: the value of the CipherKeyValue request is the payload followed by
\* zero bytes up to 16 * ceil(L / 16) bytes, so a block-aligned payload is
\* sent unchanged; the earlier program sends "TEST VALUE" followed by six
\* zero bytes with encrypt set
C11_ValueIsZeroPadded ==
    [][(pc = "build" /\ pc' = "call")
         => /\ req'.kind = "CipherKeyValue"
            /\ variant = "cli"
                 => /\ IsZeroPadded(req'.value, value)
                    /\ Len(value) % 16 = 0 => req'.value = value
            /\ variant = "test"
                 => /\ req'.value = <<84, 69, 83, 84, 32, 86, 65, 76, 85, 69,
                                      0, 0, 0, 0, 0, 0>>
                    /\ req'.encrypt = TRUE]_vars

\* a 17-byte payload is about to be sent as 32 bytes
C11_Witness ==
    /\ CipherRequestReady
    /\ variant = "cli"
    /\ input.read /\ Len(input.param) = 17 /\ ~flags.hexIn
    /\ Len(req.value) = 32
    /\ req.value[17] = 48 /\ req.value[18] = 0

\* main read -v and TREZOR_CIPHER_VALUE and found both empty
NoValueSupplied ==
    /\ variant = "cli"
    /\ input.read
    /\ Len(input.param) = 0
    /\ Len(input.env) = 0

\* C12: when -v and TREZOR_CIPHER_VALUE are both empty the run releases
\* the session, reports "no value" on the error stream, exits with status 1
\* and has sent no CipherKeyValue request
C12_NoValueExitsWithOne ==
    NoValueSupplied
      => /\ pc = "exited"
         /\ nRelease >= 1
         /\ Reported(NoValueText)
         /\ exitStatus = 1
         /\ nCipher = 0

\* C12, amended: the exit status is 1 when Release returns no error; when
\* Release fails the run ends in a panic, with status 2
C12_NoValueReleasesThenExits ==
    NoValueSupplied
      => /\ pc = "exited"
         /\ nRelease >= 1
         /\ ~err => session = "released"
         /\ Reported(NoValueText)
         /\ exitStatus = (IF err THEN 2 ELSE 1)
         /\ nCipher = 0

\* a run without a value that ended with status 1
C12_Witness ==
    /\ NoValueSupplied
    /\ pc = "exited"
    /\ exitStatus = 1
    /\ exitCause = "noValue"
    /\ nRelease = 1

\* the digits of lower-case hexadecimal text
LowerHex == <<48, 49, 50, 51, 52, 53, 54, 55, 56, 57,
              97, 98, 99, 100, 101, 102>>

\* text is the hexadecimal text of the bytes v
IsHexOf(text, v) ==
    /\ Len(text) = 2 * Len(v)
    /\ \A i \in 1..Len(v) :
         /\ text[2 * i - 1] = LowerHex[(v[i] \div 16) + 1]
         /\ text[2 * i] = LowerHex[(v[i] % 16) + 1]

\* C13: in the CLI program standard output receives at most one write; it
\* happens only when the reply that ended the cipher call is a
\* CipheredKeyValue, and it carries exactly that reply's value, raw or as
\* hexadecimal text with -Ho; no diagnostic text is written there
C13_OutputIsTheResultOnly ==
    variant = "cli"
      => /\ Len(stdout) <= 1
         /\ Len(stdout) = 1
              => /\ chain = "cipher"
                 /\ pc \in {"release", "exited"}
                 /\ rcvd # <<>>
                 /\ Last(rcvd).kind = "CipheredKeyValue"
                 /\ stdout[1].text = ""
                 /\ IF flags.hexOut
                    THEN IsHexOf(stdout[1].bytes, Last(rcvd).value)
                    ELSE stdout[1].bytes = Last(rcvd).value
         /\ (pc = "exited" /\ exitStatus # 0) => stderr # <<>>

\* the value 0xAB 0x30 was printed as "ab30"
C13_Witness ==
    /\ variant = "cli"
    /\ flags.hexOut
    /\ stdout = <<Write("", <<97, 98, 51, 48>>)>>
    /\ rcvd # <<>>
    /\ Last(rcvd).kind = "CipheredKeyValue"
    /\ stderr # <<>>

\* the last request on the transport got an error instead of a reply
Unanswered == Len(sent) = Len(rcvd) + 1

\* C14: a transport call that returns an error ends the call chain at
\* once: the failing request is the last one sent, trezorCall returns no
\* reply and the error, and main then ends the process with a non-zero
\* status without sending anything or calling the API again
C14_TransportErrorEndsRun ==
    [][/\ pc = "call" /\ Unanswered'
          => /\ pc' = "returned"
             /\ err'
             /\ res' = NoMessage
             /\ sent' = Append(sent, req.kind)
             /\ rcvd' = rcvd
       /\ Unanswered
          => /\ pc = "returned"
             /\ pc' = "exited"
             /\ exitStatus' = (IF variant = "cli" THEN 255 ELSE 2)
             /\ sent' = sent
             /\ nCipher' = nCipher
             /\ nRelease' = nRelease
             /\ nAcquire' = nAcquire]_vars

\* the run ended because the call that sent an acknowledgment during the
\* cipher call failed
C14_Witness ==
    /\ Unanswered
    /\ pc = "exited"
    /\ variant = "cli"
    /\ chain = "cipher"
    /\ Len(rcvd) = 1
    /\ sent = <<"CipherKeyValue", "ButtonAck">>
    /\ exitStatus = 255

\* a byte that is a hexadecimal digit
IsHexChar(c) == c \in (48..57) \cup (65..70) \cup (97..102)

\* v is not well-formed hexadecimal text
MalformedHex(v) ==
    \/ Len(v) % 2 = 1
    \/ \E i \in 1..Len(v) : ~IsHexChar(v[i])

\* main read a value that is to be hex-decoded for decryption and is not
\* well-formed
MalformedInput ==
    /\ variant = "cli"
    /\ input.read
    /\ flags.hexIn /\ ~flags.encrypt
    /\ MalformedHex(IF Len(input.param) = 0 THEN input.env ELSE input.param)

\* C15: with -Hi in decrypt mode a value that is not well-formed hex (odd
\* length, or a non-hex character at any position) is fatal: no
\* CipherKeyValue request is sent and the run ends with a host-side error
C15_MalformedHexIsFatal ==
    [][MalformedInput
         => /\ nCipher' = nCipher
            /\ pc' = "exited" => exitStatus' \in {1, 2, 255}]_vars

\* trezor-askpass failed when it was run for the PinMatrixRequest that is
\* the last reply received
PinCollaboratorFailed ==
    /\ askErr
    /\ rcvd # <<>>
    /\ Last(rcvd).kind = "PinMatrixRequest"

\* C16: when the PIN collaborator fails after a PinMatrixRequest, no
\* PinMatrixAck and no later request is sent, trezorCall does not return to
\* main, and the process has ended with a host-side error status
C16_PinFailureEndsRun ==
    PinCollaboratorFailed
      => /\ pc = "exited"
         /\ exitStatus = (IF variant = "cli" THEN 255 ELSE 2)
         /\ exitCause \in {"checkError", "panic"}
         /\ Len(sent) = Len(rcvd)
         /\ Last(asked) = (IF variant = "cli" THEN "PIN:" ELSE "PIN")

\* the earlier program ended in a panic on a failed PIN prompt during the
\* cipher call
C16_Witness ==
    /\ PinCollaboratorFailed
    /\ variant = "test"
    /\ chain = "cipher"
    /\ pc = "exited"
    /\ exitStatus = 2

\* the CLI program is past the switch on a reply to Initialize that was
\* no Features, and the cipher call has not returned
UnknownInitReply ==
    /\ variant = "cli"
    /\ \/ chain = "init" /\ pc \notin {"call", "returned"}
       \/ chain = "cipher" /\ pc = "call"
    /\ res.kind \notin {"nil", "Features"}

\* the number of leading well-formed pairs of hexadecimal digits of v
LeadingPairs(v) ==
    CHOOSE k \in 0..(Len(v) \div 2) :
       /\ \A i \in 1..(2 * k) : IsHexChar(v[i])
       /\ k < Len(v) \div 2
            => ~(IsHexChar(v[2 * k + 1]) /\ IsHexChar(v[2 * k + 2]))

\* main read a value for decryption whose hex pairs decode to an odd
\* number of bytes
OddHexInput ==
    /\ input.read
    /\ flags.hexIn /\ ~flags.encrypt
    /\ LeadingPairs(IF Len(input.param) = 0 THEN input.env
                    ELSE input.param) % 2 = 1

Confirmations ==
    Cardinality({i \in DOMAIN rcvd : rcvd[i].kind \in ConfirmationKinds})

\* C18: a call chain in which every transport call and every run of the
\* collaborator returns ends with the return of trezorCall (or, when the
\* collaborator failed, with the end of the process); at the return the
\* number of transport calls made is the number of confirmations received
\* plus one; and at no length of the chain does the engine stop by itself:
\* a confirmation received is always followed by another call
C18_ChainReturnsAfterConfirmations ==
    /\ [](pc = "returned" => Len(sent) = Confirmations + 1)
    /\ [][(pc = "call" /\ rcvd' # rcvd
            /\ Last(rcvd').kind \in ConfirmationKinds /\ ~askErr')
           => /\ pc' = "call"
              /\ req'.kind \in {"ButtonAck", "PinMatrixAck", "PassphraseAck",
                                "PassphraseStateAck"}]_vars
    /\ (pc = "call") ~> (pc = "returned" \/ (pc = "exited" /\ askErr))

\* a chain of the greatest length of the model has returned
C18_Witness ==
    /\ pc = "returned"
    /\ ~err
    /\ Confirmations = MaxConfirm
    /\ Len(sent) = MaxConfirm + 1

\* C19: every CipherKeyValue request main sends carries a value whose
\* length is a positive multiple of 16; the payload is never empty
C19_ValueIsWholeBlocks ==
    [][(variant = "cli" /\ nCipher' = nCipher + 1)
         => /\ req.kind = "CipherKeyValue"
            /\ Len(req.value) > 0
            /\ Len(req.value) % 16 = 0]_vars

\* a run of the CLI program that did not ask for help has exited with 0
ExitedWithZero ==
    /\ variant = "cli"
    /\ ~flags.help
    /\ pc = "exited"
    /\ exitStatus = 0

\* the cipher call was made once, after the Initialize call had returned,
\* every request of it was answered, its last reply is a CipheredKeyValue
\* after confirmations only, that value is on standard output, no
\* collaborator failed, and the last Release returned no error
CipheredAndReleased ==
    /\ chain = "cipher"
    /\ nCipher = 1
    /\ sent # <<>> /\ sent[1] = "CipherKeyValue"
    /\ \A i \in 2..Len(sent) : sent[i] # "CipherKeyValue"
    /\ Len(sent) = Len(rcvd)
    /\ Last(rcvd).kind = "CipheredKeyValue"
    /\ \A i \in 1..(Len(rcvd) - 1) : rcvd[i].kind \in ConfirmationKinds
    /\ Len(stdout) = 1
    /\ IF flags.hexOut THEN IsHexOf(stdout[1].bytes, Last(rcvd).value)
                       ELSE stdout[1].bytes = Last(rcvd).value
    /\ ~askErr
    /\ ~err
    /\ nRelease >= 1
    /\ session = "released"
    /\ exitCause = "returned"

\* C20: a run that did not ask for help exits with 0 only if one
\* CipherKeyValue request was sent after the Initialize call returned, its
\* terminal reply was a CipheredKeyValue written to standard output and the
\* final Release succeeded; and no run exits with 0 after any Failure or
\* unrecognized reply, transport error or collaborator failure
C20_ZeroOnlyAfterCleanRun ==
    ExitedWithZero
      => /\ CipheredAndReleased
         /\ ~Reported("Unknown type.\n")

\* C20, amended: the Failure or unrecognized reply that excludes the exit
\* with 0 is one to the cipher call; such a reply to Initialize does not
C20_ZeroOnlyAfterCiphered ==
    ExitedWithZero => CipheredAndReleased

\* a run that printed the hex text of the result and exited with 0
C20_Witness ==
    /\ ExitedWithZero
    /\ flags.hexOut
    /\ stdout = <<Write("", <<97, 98, 51, 48>>)>>
    /\ Len(rcvd) = 2
    /\ nRelease = 1

====
